---- MODULE Spec2Model ----
(***************************************************************************)
(* Model of the music player daemon of src/src/main.rs.                    *)
(*                                                                         *)
(* Three threads share one rodio Sink behind one Mutex:                    *)
(*   - the main thread, which runs MusicPlayer::main_loop on `player`,     *)
(*   - the command_server thread, which runs on `player.clone()`,          *)
(*   - the hotkey_listener thread, which talks to command_server through   *)
(*     the socket (send_command) and never touches the Mutex itself.       *)
(* The audio output thread of the sink drains the queue (TrackEnd).        *)
(*                                                                         *)
(* Gains are integer hundredths (0.7 is 70).                               *)
(***************************************************************************)
EXTENDS Integers, Sequences, FiniteSets, TLC

\* ------------------------------------------------------------------ bounds

\* Largest number of files the scanned directory holds (daemon model).
MaxFiles == 3

\* Largest number of files of the sequential playlist model.
MaxPlaylist == 4

\* Largest number of entries of the directory MusicPlayer::new scans.
MaxEntries == 2

\* ------------------------------------------------------- program constants

\* 0.1, the volume step of volume_up and volume_down.
VolumeStep == 10

\* 1.0, the upper clamp of volume_up.
MaxVolume == 100

\* 0.0, the lower clamp of volume_down.
MinVolume == 0

\* 0.7, Config::default().volume.
DefaultVolume == 70

VARIABLES
    nfiles,         \* self.files.len(), fixed by MusicPlayer::new
    current_index,  \* current_index of each MusicPlayer value: "main" is
                    \* `player`, "server" is `player_clone`
    sink,           \* the shared Sink: queued sources, paused flag, volume
    lock,           \* holder of the Mutex around the sink
    main_pc,        \* position of the main thread in main_loop
    srv_pc,         \* position of the command_server thread
    srv_cmd,        \* `cmd`, the string read from the connection served last
    srv_paused,     \* result of sink.is_paused() in the "pause" arm
    srv_vol,        \* `vol`, the local of the volume arms
    proc,           \* "running", "exited" (process::exit) or "panicked"
    config_volume,  \* config.volume, passed to set_volume at startup
    last_started,   \* history: <<track>> most recently appended to the sink
    media_error,    \* history: some play() has returned Err
    vol_log,        \* history: the volume commands applied, <<"more">> after two
    pl_index,       \* sequential playlist model: current_index
    pl_start,       \* history: the cursor the sequence of calls started at
    pl_ops,         \* history: the calls made, each with the cursor it left
    hotkeys,        \* config.hotkeys: command name -> combination string
    pressed_keys,   \* hotkey_listener: the HashSet of held keys
    modifiers,      \* hotkey_listener: the ModifierState
    hk_event,       \* history: the event the callback handled last
    hk_sent,        \* history: the commands it passed to send_command
    dir,            \* the file system at `path` when MusicPlayer::new runs
    new_result      \* what MusicPlayer::new returned, status "none" before

playerVars == <<nfiles, current_index, sink, lock, main_pc, srv_pc, srv_cmd,
                srv_paused, srv_vol, proc, config_volume, last_started,
                media_error, vol_log>>

playlistVars == <<pl_index, pl_start, pl_ops>>

hotkeyVars == <<hotkeys, pressed_keys, modifiers, hk_event, hk_sent>>

scanVars == <<dir, new_result>>

\* -------------------------------------------------------------- MusicPlayer

\* MusicPlayer::next, the cursor update.
NextIndexNoWrap(i, n) == i + 1

NextIndex(i, n) == (i + 1) % n

\* MusicPlayer::prev, the cursor update.
PrevIndexNoWrap(i, n) == IF i = 0 THEN 0 ELSE i - 1

PrevIndex(i, n) == IF i = 0 THEN n - 1 ELSE i - 1

\* MusicPlayer::play on sink s with the cursor at idx: sink.stop(), then open
\* and decode; only when both succeed (ok) is the source appended. The paused
\* flag and the volume are left as they are.
Play(s, idx, ok) ==
    IF ok THEN [s EXCEPT !.queued = <<idx>>] ELSE [s EXCEPT !.queued = <<>>]

\* The history a call of play() leaves.
Played(idx, ok) ==
    /\ last_started' = IF ok THEN <<idx>> ELSE last_started
    /\ media_error' = (media_error \/ ~ok)

\* ----------------------------------------------------------- command_server

\* The strings a client may write to the socket.
Requests == {"next", "prev", "pause", "stop", "volume_up", "volume_down",
             "seek", "", "next\n"}

\* The arms of `match cmd.as_str()`.
KnownTokens == {"next", "prev", "pause", "stop", "volume_up", "volume_down"}

\* The arm a request string selects, trimming it first.
ArmTrimmed(cmd) == IF cmd = "next\n" THEN "next"
                   ELSE IF cmd \in KnownTokens THEN cmd ELSE "_"

\* The arm `match cmd.as_str()` selects: string equality, `_` otherwise.
Arm(cmd) == IF cmd \in KnownTokens THEN cmd ELSE "_"

\* The arms that take the sink lock.
LockingArms == {"next", "prev", "pause", "volume_up", "volume_down"}

\* sink.volume() + 0.1 without the clamp.
VolumeUpUnclamped(v) == v + VolumeStep

\* (sink.volume() + 0.1).min(1.0)
VolumeUp(v) == IF v + VolumeStep < MaxVolume THEN v + VolumeStep ELSE MaxVolume

\* (sink.volume() - 0.1).max(0.0)
VolumeDown(v) == IF v - VolumeStep > MinVolume THEN v - VolumeStep ELSE MinVolume

Running == proc = "running"

\* listener.incoming() yields a connection.
ServerAccept ==
    /\ Running
    /\ srv_pc = "accept"
    /\ srv_pc' = "read"
    /\ UNCHANGED <<playlistVars, hotkeyVars, scanVars>>
    /\ UNCHANGED <<nfiles, current_index, sink, lock, main_pc, srv_cmd,
                   srv_paused, srv_vol, proc, config_volume, last_started,
                   media_error, vol_log>>

\* stream.read_to_string(&mut cmd) returns Ok once the client has closed.
ServerRead ==
    /\ Running
    /\ srv_pc = "read"
    /\ \E cmd \in Requests : srv_cmd' = cmd
    /\ srv_pc' = "dispatch"
    /\ UNCHANGED <<playlistVars, hotkeyVars, scanVars>>
    /\ UNCHANGED <<nfiles, current_index, sink, lock, main_pc, srv_paused,
                   srv_vol, proc, config_volume, last_started, media_error,
                   vol_log>>

\* read_to_string returns Err (an I/O error, bytes that are not UTF-8): the
\* connection is dropped and the loop goes on.
ServerReadErr ==
    /\ Running
    /\ srv_pc = "read"
    /\ srv_pc' = "accept"
    /\ UNCHANGED <<playlistVars, hotkeyVars, scanVars>>
    /\ UNCHANGED <<nfiles, current_index, sink, lock, main_pc, srv_cmd,
                   srv_paused, srv_vol, proc, config_volume, last_started,
                   media_error, vol_log>>

\* "stop" => process::exit(0)
ServerStop ==
    /\ Running
    /\ srv_pc = "dispatch"
    /\ Arm(srv_cmd) = "stop"
    /\ proc' = "exited"
    /\ UNCHANGED <<playlistVars, hotkeyVars, scanVars>>
    /\ UNCHANGED <<nfiles, current_index, sink, lock, main_pc, srv_pc,
                   srv_cmd, srv_paused, srv_vol, config_volume, last_started,
                   media_error, vol_log>>

\* _ => {}
ServerIgnore ==
    /\ Running
    /\ srv_pc = "dispatch"
    /\ Arm(srv_cmd) = "_"
    /\ srv_pc' = "accept"
    /\ UNCHANGED srv_cmd
    /\ UNCHANGED <<playlistVars, hotkeyVars, scanVars>>
    /\ UNCHANGED <<nfiles, current_index, sink, lock, main_pc, srv_paused,
                   srv_vol, proc, config_volume, last_started, media_error,
                   vol_log>>

\* sink.lock() that does not wait for the Mutex.
ServerLockNoWait ==
    /\ Running
    /\ srv_pc = "dispatch"
    /\ Arm(srv_cmd) \in LockingArms
    /\ lock' = "server"
    /\ srv_pc' = "locked"
    /\ UNCHANGED <<playlistVars, hotkeyVars, scanVars>>
    /\ UNCHANGED <<nfiles, current_index, sink, main_pc, srv_cmd, srv_paused,
                   srv_vol, proc, config_volume, last_started, media_error,
                   vol_log>>

\* let sink = sink.lock().unwrap(); the first statement of the five arms
\* that touch the sink. Blocks while the Mutex is held.
ServerLock ==
    /\ Running
    /\ srv_pc = "dispatch"
    /\ Arm(srv_cmd) \in LockingArms
    /\ lock = "free"
    /\ lock' = "server"
    /\ srv_pc' = "locked"
    /\ UNCHANGED <<playlistVars, hotkeyVars, scanVars>>
    /\ UNCHANGED <<nfiles, current_index, sink, main_pc, srv_cmd, srv_paused,
                   srv_vol, proc, config_volume, last_started, media_error,
                   vol_log>>

\* let _ = player.next(&sink); the guard is dropped at the end of the arm.
ServerNext ==
    /\ Running
    /\ srv_pc = "locked"
    /\ Arm(srv_cmd) = "next"
    /\ \E ok \in BOOLEAN :
         LET idx == NextIndex(current_index["server"], nfiles) IN
           /\ current_index' = [current_index EXCEPT !["server"] = idx]
           /\ sink' = Play(sink, idx, ok)
           /\ Played(idx, ok)
    /\ lock' = "free"
    /\ srv_pc' = "accept"
    /\ UNCHANGED srv_cmd
    /\ UNCHANGED <<playlistVars, hotkeyVars, scanVars>>
    /\ UNCHANGED <<nfiles, main_pc, srv_paused, srv_vol, proc, config_volume,
                   vol_log>>

\* let _ = player.prev(&sink);
ServerPrev ==
    /\ Running
    /\ srv_pc = "locked"
    /\ Arm(srv_cmd) = "prev"
    /\ \E ok \in BOOLEAN :
         LET idx == PrevIndex(current_index["server"], nfiles) IN
           /\ current_index' = [current_index EXCEPT !["server"] = idx]
           /\ sink' = Play(sink, idx, ok)
           /\ Played(idx, ok)
    /\ lock' = "free"
    /\ srv_pc' = "accept"
    /\ UNCHANGED srv_cmd
    /\ UNCHANGED <<playlistVars, hotkeyVars, scanVars>>
    /\ UNCHANGED <<nfiles, main_pc, srv_paused, srv_vol, proc, config_volume,
                   vol_log>>

\* if sink.is_paused(): the read of the "pause" arm.
ServerPauseRead ==
    /\ Running
    /\ srv_pc = "locked"
    /\ Arm(srv_cmd) = "pause"
    /\ srv_paused' = sink.paused
    /\ srv_pc' = "write"
    /\ UNCHANGED <<playlistVars, hotkeyVars, scanVars>>
    /\ UNCHANGED <<nfiles, current_index, sink, lock, main_pc, srv_cmd,
                   srv_vol, proc, config_volume, last_started, media_error,
                   vol_log>>

\* sink.play() or sink.pause(), then the guard is dropped.
ServerPauseWrite ==
    /\ Running
    /\ srv_pc = "write"
    /\ Arm(srv_cmd) = "pause"
    /\ sink' = [sink EXCEPT !.paused = ~srv_paused]
    /\ srv_paused' = FALSE
    /\ lock' = "free"
    /\ srv_pc' = "accept"
    /\ UNCHANGED srv_cmd
    /\ UNCHANGED <<playlistVars, hotkeyVars, scanVars>>
    /\ UNCHANGED <<nfiles, current_index, main_pc, srv_vol, proc,
                   config_volume, last_started, media_error, vol_log>>

\* let vol = (sink.volume() +- 0.1).min(1.0) / .max(0.0);
ServerVolumeRead ==
    /\ Running
    /\ srv_pc = "locked"
    /\ Arm(srv_cmd) \in {"volume_up", "volume_down"}
    /\ srv_vol' = IF Arm(srv_cmd) = "volume_up" THEN VolumeUp(sink.volume)
                  ELSE VolumeDown(sink.volume)
    /\ srv_pc' = "write"
    /\ UNCHANGED <<playlistVars, hotkeyVars, scanVars>>
    /\ UNCHANGED <<nfiles, current_index, sink, lock, main_pc, srv_cmd,
                   srv_paused, proc, config_volume, last_started, media_error,
                   vol_log>>

\* sink.set_volume(vol); then the guard is dropped.
ServerVolumeWrite ==
    /\ Running
    /\ srv_pc = "write"
    /\ Arm(srv_cmd) \in {"volume_up", "volume_down"}
    /\ sink' = [sink EXCEPT !.volume = srv_vol]
    /\ vol_log' = IF vol_log = <<"more">> THEN vol_log
                  ELSE IF Len(vol_log) < 2 THEN Append(vol_log, Arm(srv_cmd))
                  ELSE <<"more">>
    /\ srv_vol' = 0
    /\ lock' = "free"
    /\ srv_pc' = "accept"
    /\ UNCHANGED srv_cmd
    /\ UNCHANGED <<playlistVars, hotkeyVars, scanVars>>
    /\ UNCHANGED <<nfiles, current_index, main_pc, srv_paused, proc,
                   config_volume, last_started, media_error>>

\* ---------------------------------------------------- MusicPlayer::main_loop

\* let sink = sink.lock().unwrap(); of the first block.
MainStartLock ==
    /\ Running
    /\ main_pc = "start"
    /\ lock = "free"
    /\ lock' = "main"
    /\ main_pc' = "start_locked"
    /\ UNCHANGED <<playlistVars, hotkeyVars, scanVars>>
    /\ UNCHANGED <<nfiles, current_index, sink, srv_pc, srv_cmd, srv_paused,
                   srv_vol, proc, config_volume, last_started, media_error,
                   vol_log>>

\* self.play(&sink).unwrap(); an Err panics the main thread, which ends the
\* process.
MainStartPlay ==
    /\ Running
    /\ main_pc = "start_locked"
    /\ \E ok \in BOOLEAN :
         /\ sink' = Play(sink, current_index["main"], ok)
         /\ Played(current_index["main"], ok)
         /\ proc' = IF ok THEN proc ELSE "panicked"
    /\ lock' = "free"
    /\ main_pc' = "poll"
    /\ UNCHANGED <<playlistVars, hotkeyVars, scanVars>>
    /\ UNCHANGED <<nfiles, current_index, srv_pc, srv_cmd, srv_paused,
                   srv_vol, config_volume, vol_log>>

\* let sink = sink.lock().unwrap(); of the loop body.
MainPollLock ==
    /\ Running
    /\ main_pc = "poll"
    /\ lock = "free"
    /\ lock' = "main"
    /\ main_pc' = "poll_locked"
    /\ UNCHANGED <<playlistVars, hotkeyVars, scanVars>>
    /\ UNCHANGED <<nfiles, current_index, sink, srv_pc, srv_cmd, srv_paused,
                   srv_vol, proc, config_volume, last_started, media_error,
                   vol_log>>

\* if sink.empty() with the guard dropped right after the check.
MainCheckEmptyUnlocked ==
    /\ Running
    /\ main_pc = "poll_locked"
    /\ main_pc' = IF Len(sink.queued) = 0 THEN "advance" ELSE "sleep"
    /\ lock' = "free"
    /\ UNCHANGED <<playlistVars, hotkeyVars, scanVars>>
    /\ UNCHANGED <<nfiles, current_index, sink, srv_pc, srv_cmd, srv_paused,
                   srv_vol, proc, config_volume, last_started, media_error,
                   vol_log>>

\* if sink.empty(): when it is not, the guard is dropped and the thread
\* sleeps.
MainCheckEmpty ==
    /\ Running
    /\ main_pc = "poll_locked"
    /\ IF Len(sink.queued) = 0
       THEN main_pc' = "advance" /\ lock' = lock
       ELSE main_pc' = "sleep" /\ lock' = "free"
    /\ UNCHANGED <<playlistVars, hotkeyVars, scanVars>>
    /\ UNCHANGED <<nfiles, current_index, sink, srv_pc, srv_cmd, srv_paused,
                   srv_vol, proc, config_volume, last_started, media_error,
                   vol_log>>

\* self.next(&sink).unwrap(); with the guard kept over the sleep.
MainAdvanceKeepingGuard ==
    /\ Running
    /\ main_pc = "advance"
    /\ \E ok \in BOOLEAN :
         LET idx == NextIndex(current_index["main"], nfiles) IN
           /\ current_index' = [current_index EXCEPT !["main"] = idx]
           /\ sink' = Play(sink, idx, ok)
           /\ Played(idx, ok)
           /\ proc' = IF ok THEN proc ELSE "panicked"
    /\ lock' = lock
    /\ main_pc' = "sleep"
    /\ UNCHANGED <<playlistVars, hotkeyVars, scanVars>>
    /\ UNCHANGED <<nfiles, srv_pc, srv_cmd, srv_paused, srv_vol,
                   config_volume, vol_log>>

\* self.next(&sink).unwrap(); then the guard is dropped.
MainAdvance ==
    /\ Running
    /\ main_pc = "advance"
    /\ \E ok \in BOOLEAN :
         LET idx == NextIndex(current_index["main"], nfiles) IN
           /\ current_index' = [current_index EXCEPT !["main"] = idx]
           /\ sink' = Play(sink, idx, ok)
           /\ Played(idx, ok)
           /\ proc' = IF ok THEN proc ELSE "panicked"
    /\ lock' = "free"
    /\ main_pc' = "sleep"
    /\ UNCHANGED <<playlistVars, hotkeyVars, scanVars>>
    /\ UNCHANGED <<nfiles, srv_pc, srv_cmd, srv_paused, srv_vol,
                   config_volume, vol_log>>

\* thread::sleep(Duration::from_millis(100)) returns.
MainWake ==
    /\ Running
    /\ main_pc = "sleep"
    /\ main_pc' = "poll"
    /\ UNCHANGED <<playlistVars, hotkeyVars, scanVars>>
    /\ UNCHANGED <<nfiles, current_index, sink, lock, srv_pc, srv_cmd,
                   srv_paused, srv_vol, proc, config_volume, last_started,
                   media_error, vol_log>>

\* ------------------------------------------------------------- audio output

\* The sink's output thread plays the queued source to its end: the queue
\* drains and sink.empty() becomes true. A paused sink does not progress.
TrackEnd ==
    /\ Running
    /\ Len(sink.queued) > 0
    /\ ~sink.paused
    /\ sink' = [sink EXCEPT !.queued = <<>>]
    /\ UNCHANGED <<playlistVars, hotkeyVars, scanVars>>
    /\ UNCHANGED <<nfiles, current_index, lock, main_pc, srv_pc, srv_cmd,
                   srv_paused, srv_vol, proc, config_volume, last_started,
                   media_error, vol_log>>

\* --------------------------------------------- sequential playlist model

\* The longest sequence of calls the history records.
MaxCalls == IF nfiles < 2 THEN 2 ELSE nfiles

\* player.next(&sink) called by a single thread.
PlaylistNext ==
    /\ Len(pl_ops) < MaxCalls
    /\ \E ok \in BOOLEAN :
         LET idx == NextIndex(pl_index, nfiles) IN
           /\ pl_index' = idx
           /\ sink' = Play(sink, idx, ok)
           /\ pl_ops' = Append(pl_ops, [op |-> "next", index |-> idx])
    /\ UNCHANGED <<pl_start, hotkeyVars, scanVars>>
    /\ UNCHANGED <<nfiles, current_index, lock, main_pc, srv_pc, srv_cmd,
                   srv_paused, srv_vol, proc, config_volume, last_started,
                   media_error, vol_log>>

\* player.prev(&sink) called by a single thread.
PlaylistPrev ==
    /\ Len(pl_ops) < MaxCalls
    /\ \E ok \in BOOLEAN :
         LET idx == PrevIndex(pl_index, nfiles) IN
           /\ pl_index' = idx
           /\ sink' = Play(sink, idx, ok)
           /\ pl_ops' = Append(pl_ops, [op |-> "prev", index |-> idx])
    /\ UNCHANGED <<pl_start, hotkeyVars, scanVars>>
    /\ UNCHANGED <<nfiles, current_index, lock, main_pc, srv_pc, srv_cmd,
                   srv_paused, srv_vol, proc, config_volume, last_started,
                   media_error, vol_log>>

\* ---------------------------------------------------------- hotkey_listener

\* Strings are sequences of one-character strings: "ctrl+x" is
\* <<"c", "t", "r", "l", "+", "x">>.

Uppers == <<"A", "B", "C", "D", "E", "F", "G", "H", "I", "J", "K", "L", "M",
            "N", "O", "P", "Q", "R", "S", "T", "U", "V", "W", "X", "Y", "Z">>

Lowers == <<"a", "b", "c", "d", "e", "f", "g", "h", "i", "j", "k", "l", "m",
            "n", "o", "p", "q", "r", "s", "t", "u", "v", "w", "x", "y", "z">>

\* str::to_lowercase
ToLowercase(s) ==
    [i \in 1..Len(s) |->
        IF \E k \in 1..Len(Uppers) : Uppers[k] = s[i]
        THEN Lowers[CHOOSE k \in 1..Len(Uppers) : Uppers[k] = s[i]]
        ELSE s[i]]

\* hotkey_str.split('+'): the pieces between the '+' characters, empty
\* pieces included.
RECURSIVE Split(_)
Split(s) ==
    IF s = <<>> THEN << <<>> >>
    ELSE IF Head(s) = "+" THEN << <<>> >> \o Split(Tail(s))
    ELSE LET rest == Split(Tail(s)) IN
           << <<Head(s)>> \o Head(rest) >> \o Tail(rest)

\* The patterns of str_to_key and the key each gives.
KeyTable ==
    <<
       <<<<"n", "e", "x", "t", "s", "o", "n", "g">>, "Unknown(0x1008ff17)">>,
       <<<<"a", "u", "d", "i", "o", "n", "e", "x", "t">>, "Unknown(0x1008ff17)">>,
       <<<<"p", "r", "e", "v", "i", "o", "u", "s", "s", "o", "n", "g">>, "Unknown(0x1008ff16)">>,
       <<<<"a", "u", "d", "i", "o", "p", "r", "e", "v">>, "Unknown(0x1008ff16)">>,
       <<<<"p", "l", "a", "y", "p", "a", "u", "s", "e">>, "Unknown(0x1008ff14)">>,
       <<<<"a", "u", "d", "i", "o", "p", "l", "a", "y">>, "Unknown(0x1008ff14)">>,
       <<<<"s", "t", "o", "p", "c", "d">>, "Unknown(0x1008ff15)">>,
       <<<<"a", "u", "d", "i", "o", "s", "t", "o", "p">>, "Unknown(0x1008ff15)">>,
       <<<<"v", "o", "l", "u", "m", "e", "d", "o", "w", "n">>, "Unknown(0x1008ff11)">>,
       <<<<"v", "o", "l", "u", "m", "e", "u", "p">>, "Unknown(0x1008ff13)">>,
       <<<<"v", "o", "l", "u", "m", "e", "m", "u", "t", "e">>, "Unknown(0x1008ff12)">>,
       <<<<"a">>, "KeyA">>,
       <<<<"b">>, "KeyB">>,
       <<<<"c">>, "KeyC">>,
       <<<<"d">>, "KeyD">>,
       <<<<"e">>, "KeyE">>,
       <<<<"f">>, "KeyF">>,
       <<<<"g">>, "KeyG">>,
       <<<<"h">>, "KeyH">>,
       <<<<"i">>, "KeyI">>,
       <<<<"j">>, "KeyJ">>,
       <<<<"k">>, "KeyK">>,
       <<<<"l">>, "KeyL">>,
       <<<<"m">>, "KeyM">>,
       <<<<"n">>, "KeyN">>,
       <<<<"o">>, "KeyO">>,
       <<<<"p">>, "KeyP">>,
       <<<<"q">>, "KeyQ">>,
       <<<<"r">>, "KeyR">>,
       <<<<"s">>, "KeyS">>,
       <<<<"t">>, "KeyT">>,
       <<<<"u">>, "KeyU">>,
       <<<<"v">>, "KeyV">>,
       <<<<"w">>, "KeyW">>,
       <<<<"x">>, "KeyX">>,
       <<<<"y">>, "KeyY">>,
       <<<<"z">>, "KeyZ">>,
       <<<<"0">>, "Num0">>,
       <<<<"1">>, "Num1">>,
       <<<<"2">>, "Num2">>,
       <<<<"3">>, "Num3">>,
       <<<<"4">>, "Num4">>,
       <<<<"5">>, "Num5">>,
       <<<<"6">>, "Num6">>,
       <<<<"7">>, "Num7">>,
       <<<<"8">>, "Num8">>,
       <<<<"9">>, "Num9">>,
       <<<<"f", "1">>, "F1">>,
       <<<<"f", "2">>, "F2">>,
       <<<<"f", "3">>, "F3">>,
       <<<<"f", "4">>, "F4">>,
       <<<<"f", "5">>, "F5">>,
       <<<<"f", "6">>, "F6">>,
       <<<<"f", "7">>, "F7">>,
       <<<<"f", "8">>, "F8">>,
       <<<<"f", "9">>, "F9">>,
       <<<<"f", "1", "0">>, "F10">>,
       <<<<"f", "1", "1">>, "F11">>,
       <<<<"f", "1", "2">>, "F12">>,
       <<<<"s", "p", "a", "c", "e">>, "Space">>,
       <<<<"e", "n", "t", "e", "r">>, "Return">>,
       <<<<"t", "a", "b">>, "Tab">>,
       <<<<"b", "a", "c", "k", "s", "p", "a", "c", "e">>, "Backspace">>,
       <<<<"e", "s", "c", "a", "p", "e">>, "Escape">>,
       <<<<"i", "n", "s", "e", "r", "t">>, "Insert">>,
       <<<<"d", "e", "l", "e", "t", "e">>, "Delete">>,
       <<<<"h", "o", "m", "e">>, "Home">>,
       <<<<"e", "n", "d">>, "End">>,
       <<<<"p", "a", "g", "e", "u", "p">>, "PageUp">>,
       <<<<"p", "a", "g", "e", "d", "o", "w", "n">>, "PageDown">>,
       <<<<"u", "p">>, "UpArrow">>,
       <<<<"d", "o", "w", "n">>, "DownArrow">>,
       <<<<"l", "e", "f", "t">>, "LeftArrow">>,
       <<<<"r", "i", "g", "h", "t">>, "RightArrow">>,
       <<<<"s", "h", "i", "f", "t">>, "ShiftLeft">>,
       <<<<"c", "t", "r", "l">>, "ControlLeft">>,
       <<<<"a", "l", "t">>, "Alt">>,
       <<<<"m", "e", "t", "a">>, "MetaLeft">>,
       <<<<"s", "u", "p", "e", "r">>, "MetaLeft">>,
       <<<<"w", "i", "n">>, "MetaLeft">>
    >>

\* str_to_key: Some(key) is <<key>>, None is <<>>.
str_to_key(key_str) ==
    LET low == ToLowercase(key_str)
        hits == {k \in 1..Len(KeyTable) : KeyTable[k][1] = low}
    IN IF hits = {} THEN <<>>
       ELSE <<KeyTable[CHOOSE k \in hits : TRUE][2]>>

ModifierNames == {"shift", "ctrl", "alt", "meta"}

\* The modifier a token of the combination names ("" when it names none):
\* the first four arms of the match in check_hotkey.
ModifierOf(part) ==
    LET low == ToLowercase(part) IN
    IF low = <<"s", "h", "i", "f", "t">> THEN "shift"
    ELSE IF low = <<"c", "t", "r", "l">> THEN "ctrl"
    ELSE IF low = <<"a", "l", "t">> THEN "alt"
    ELSE IF low \in {<<"m", "e", "t", "a">>, <<"s", "u", "p", "e", "r">>,
                     <<"w", "i", "n">>} THEN "meta"
    ELSE ""

\* The loop of check_hotkey over parts[1..k]: required_mods collects the
\* modifiers, required_key is what str_to_key gave for the last other token.
RECURSIVE Required(_, _)
Required(parts, k) ==
    IF k = 0 THEN [mods |-> {}, key |-> <<>>]
    ELSE LET r == Required(parts, k - 1)
             m == ModifierOf(parts[k])
         IN IF m # "" THEN [r EXCEPT !.mods = @ \cup {m}]
            ELSE [r EXCEPT !.key = str_to_key(ToLowercase(parts[k]))]

\* ModifierState::matches as a subset test.
ModifiersMatchSubset(mods, required_mods) ==
    \A m \in required_mods : mods[m]

\* ModifierState::matches
ModifiersMatch(mods, required_mods) ==
    \A m \in ModifierNames : (m \in required_mods) = mods[m]

\* ModifierState::update that keeps a flag while another key of the same
\* modifier is held.
UpdateWhileHeld(mods, key, is_press) ==
    LET flag(others) == is_press \/ (others \cap pressed_keys) # {} IN
    IF key \in {"ShiftLeft", "ShiftRight"}
    THEN [mods EXCEPT !["shift"] = flag({"ShiftLeft", "ShiftRight"} \ {key})]
    ELSE IF key \in {"ControlLeft", "ControlRight"}
    THEN [mods EXCEPT !["ctrl"] = flag({"ControlLeft", "ControlRight"} \ {key})]
    ELSE IF key \in {"Alt", "AltGr"}
    THEN [mods EXCEPT !["alt"] = flag({"Alt", "AltGr"} \ {key})]
    ELSE IF key \in {"MetaLeft", "MetaRight"}
    THEN [mods EXCEPT !["meta"] = flag({"MetaLeft", "MetaRight"} \ {key})]
    ELSE mods

\* ModifierState::update
Update(mods, key, is_press) ==
    IF key \in {"ShiftLeft", "ShiftRight"} THEN [mods EXCEPT !["shift"] = is_press]
    ELSE IF key \in {"ControlLeft", "ControlRight"} THEN [mods EXCEPT !["ctrl"] = is_press]
    ELSE IF key \in {"Alt", "AltGr"} THEN [mods EXCEPT !["alt"] = is_press]
    ELSE IF key \in {"MetaLeft", "MetaRight"} THEN [mods EXCEPT !["meta"] = is_press]
    ELSE mods

\* Config::default().hotkeys
DefaultHotkeys ==
    [cmd \in {"next", "prev", "pause", "stop"} |->
        CASE cmd = "next" ->
               <<"X", "F", "8", "6", "A", "u", "d", "i", "o", "N", "e", "x", "t">>
          [] cmd = "prev" ->
               <<"X", "F", "8", "6", "A", "u", "d", "i", "o", "P", "r", "e", "v">>
          [] cmd = "pause" ->
               <<"X", "F", "8", "6", "A", "u", "d", "i", "o", "P", "l", "a", "y">>
          [] cmd = "stop" ->
               <<"X", "F", "8", "6", "A", "u", "d", "i", "o", "S", "t", "o", "p">>]

\* A configuration document with combinations of modifiers and a key:
\* next "ctrl+x", prev "ctrl+shift+x", pause "x", stop "Shift+Alt+Delete",
\* volume_up "SUPER+AudioNext", volume_down "win+alt+x".
CustomHotkeys ==
    [cmd \in {"next", "prev", "pause", "stop", "volume_up", "volume_down"} |->
        CASE cmd = "next" -> <<"c", "t", "r", "l", "+", "x">>
          [] cmd = "prev" ->
               <<"c", "t", "r", "l", "+", "s", "h", "i", "f", "t", "+", "x">>
          [] cmd = "pause" -> <<"x">>
          [] cmd = "stop" ->
               <<"S", "h", "i", "f", "t", "+", "A", "l", "t", "+",
                 "D", "e", "l", "e", "t", "e">>
          [] cmd = "volume_up" ->
               <<"S", "U", "P", "E", "R", "+",
                 "A", "u", "d", "i", "o", "N", "e", "x", "t">>
          [] cmd = "volume_down" ->
               <<"w", "i", "n", "+", "a", "l", "t", "+", "x">>]

\* A configuration document whose combinations have no key that resolves:
\* next "ctrl+nosuchkey", prev "shift", pause "ctrl+x+", stop "".
BrokenHotkeys ==
    [cmd \in {"next", "prev", "pause", "stop"} |->
        CASE cmd = "next" ->
               <<"c", "t", "r", "l", "+",
                 "n", "o", "s", "u", "c", "h", "k", "e", "y">>
          [] cmd = "prev" -> <<"s", "h", "i", "f", "t">>
          [] cmd = "pause" -> <<"c", "t", "r", "l", "+", "x", "+">>
          [] cmd = "stop" -> <<>>]

HotkeyConfigs == {DefaultHotkeys, CustomHotkeys, BrokenHotkeys}

\* The combination strings of these documents.
HotkeyStrings == UNION {{h[cmd] : cmd \in DOMAIN h} : h \in HotkeyConfigs}

\* required_mods and required_key as the loop of check_hotkey leaves them,
\* per combination string (they depend on the string alone).
RequiredOf ==
    [s \in HotkeyStrings |-> LET parts == Split(s) IN Required(parts, Len(parts))]

\* check_hotkey with required_key.map_or(true, ...).
check_hotkeyLenient(keys, mods, hotkey_str) ==
    LET r == RequiredOf[hotkey_str]
    IN /\ ModifiersMatch(mods, r.mods)
       /\ (r.key = <<>> \/ r.key[1] \in keys)

\* check_hotkey
check_hotkey(keys, mods, hotkey_str) ==
    LET r == RequiredOf[hotkey_str]
    IN /\ ModifiersMatch(mods, r.mods)
       /\ r.key # <<>>
       /\ r.key[1] \in keys

\* The keys the input source reports in this model.
InputKeys == {"ShiftLeft", "ShiftRight", "ControlLeft", "Alt", "MetaLeft",
              "KeyX", "Delete", "Unknown(0x1008ff17)"}


\* The commands whose combination matches: the loop over config.hotkeys.
Matching(keys, mods) ==
    {cmd \in DOMAIN hotkeys : check_hotkey(keys, mods, hotkeys[cmd])}

\* EventType::KeyPress(key) that sends only the commands bound to the key
\* pressed.
KeyPressOwnKey(key) ==
    /\ pressed_keys' = pressed_keys \cup {key}
    /\ modifiers' = Update(modifiers, key, TRUE)
    /\ hk_sent' = {cmd \in Matching(pressed_keys', modifiers') :
                     RequiredOf[hotkeys[cmd]].key = <<key>>}
    /\ hk_event' = [kind |-> "press", key |-> key]
    /\ UNCHANGED <<hotkeys, playerVars, playlistVars, scanVars>>

\* EventType::KeyPress(key)
KeyPress(key) ==
    /\ pressed_keys' = pressed_keys \cup {key}
    /\ modifiers' = Update(modifiers, key, TRUE)
    /\ hk_sent' = Matching(pressed_keys', modifiers')
    /\ hk_event' = [kind |-> "press", key |-> key]
    /\ UNCHANGED <<hotkeys, playerVars, playlistVars, scanVars>>

\* EventType::KeyRelease(key) that runs the matching loop as a press does.
KeyReleaseMatching(key) ==
    /\ pressed_keys' = pressed_keys \ {key}
    /\ modifiers' = Update(modifiers, key, FALSE)
    /\ hk_sent' = Matching(pressed_keys', modifiers')
    /\ hk_event' = [kind |-> "release", key |-> key]
    /\ UNCHANGED <<hotkeys, playerVars, playlistVars, scanVars>>

\* EventType::KeyRelease(key)
KeyRelease(key) ==
    /\ pressed_keys' = pressed_keys \ {key}
    /\ modifiers' = Update(modifiers, key, FALSE)
    /\ hk_sent' = {}
    /\ hk_event' = [kind |-> "release", key |-> key]
    /\ UNCHANGED <<hotkeys, playerVars, playlistVars, scanVars>>

\* _ => {}: a mouse or wheel event.
OtherEvent ==
    /\ hk_sent' = {}
    /\ hk_event' = [kind |-> "other", key |-> ""]
    /\ UNCHANGED <<hotkeys, pressed_keys, modifiers, playerVars, playlistVars,
                   scanVars>>

\* --------------------------------------------------------- MusicPlayer::new

\* let supported = [...]
Supported ==
    {<<"m", "p", "3">>,
     <<"w", "a", "v">>,
     <<"f", "l", "a", "c">>,
     <<"o", "g", "g">>,
     <<"a", "a", "c">>,
     <<"m", "4", "a">>}

\* Index of the last '.' of a file name, 0 if it has none.
RECURSIVE LastDot(_)
LastDot(name) ==
    IF name = <<>> THEN 0
    ELSE IF name[Len(name)] = "." THEN Len(name)
    ELSE LastDot(SubSeq(name, 1, Len(name) - 1))

\* Path::extension of an entry's path: <<>> for None (no '.' in the file
\* name, or only a leading one), else <<ext>> with the part after the last
\* '.'.
Extension(name) ==
    IF LastDot(name) <= 1 THEN <<>>
    ELSE << SubSeq(name, LastDot(name) + 1, Len(name)) >>

\* has_supported_extension comparing the extension as it is written.
has_supported_extensionCaseSensitive(path, extensions) ==
    /\ Extension(path) # <<>>
    /\ Extension(path)[1] \in extensions

\* has_supported_extension
has_supported_extension(path, extensions) ==
    /\ Extension(path) # <<>>
    /\ ToLowercase(Extension(path)[1]) \in extensions

\* The loop over fs::read_dir(path)?: an entry that is an Err ends the
\* function (entry?), a regular file with a supported extension is pushed.
RECURSIVE ScanEntries(_, _)
ScanEntries(entries, files) ==
    IF entries = <<>> THEN [ok |-> TRUE, files |-> files]
    ELSE IF Head(entries).err THEN [ok |-> FALSE, files |-> <<>>]
    ELSE ScanEntries(Tail(entries),
                     IF /\ Head(entries).is_file
                        /\ has_supported_extension(Head(entries).name, Supported)
                     THEN Append(files, Head(entries).name)
                     ELSE files)

\* No MusicPlayer yet.
NotConstructed ==
    [status |-> "none", kind |-> "", files |-> <<>>, current_index |-> 0]

\* Err(e)
NewErr(kind) ==
    [status |-> "Err", kind |-> kind, files |-> <<>>, current_index |-> 0]

\* MusicPlayer::new
MusicPlayerNew(d) ==
    IF ~d.is_dir THEN NewErr("InvalidInput")
    ELSE IF ~d.read_dir_ok THEN NewErr("read_dir")
    ELSE LET scan == ScanEntries(d.entries, <<>>) IN
           IF ~scan.ok THEN NewErr("entry")
           ELSE IF scan.files = <<>> THEN NewErr("NotFound")
           ELSE [status |-> "Ok", kind |-> "", files |-> scan.files,
                 current_index |-> 0]

\* The file names of the scan model.
FileNames ==
    {<<"a", ".", "m", "p", "3">>,
     <<"b", ".", "M", "P", "3">>,
     <<"c", ".", "F", "l", "a", "c">>,
     <<"d", ".", "w", "a", "v">>,
     <<"e", ".", "o", "g", "g">>,
     <<"f", ".", "a", "a", "c">>,
     <<"g", ".", "M", "4", "A">>,
     <<"h", ".", "t", "x", "t">>,
     <<"i">>,
     <<".", "m", "p", "3">>,
     <<"j", ".", "m", "p", "3", ".", "t", "x", "t">>,
     <<"k", ".", "t", "a", "r", ".", "o", "g", "g">>,
     <<"l", ".", "m", "p", "4">>,
     <<"m", ".">>}

\* What the iterator of read_dir yields: an Err, or an entry with its file
\* name and whether is_file() holds for its path.
DirEntries ==
    {[err |-> TRUE, name |-> <<>>, is_file |-> FALSE]}
    \cup {[err |-> FALSE, name |-> n, is_file |-> f] :
            n \in FileNames, f \in BOOLEAN}

\* The directories of the scan model: up to MaxEntries entries in the order
\* read_dir yields them, no file name twice; read_dir itself may fail. A
\* path that is not a directory has no entries.
Dirs ==
    {[is_dir |-> FALSE, read_dir_ok |-> FALSE, entries |-> <<>>]}
    \cup {[is_dir |-> TRUE, read_dir_ok |-> r, entries |-> e] :
            r \in BOOLEAN,
            e \in {x \in UNION {[1..k -> DirEntries] : k \in 0..MaxEntries} :
                     \A i, j \in 1..Len(x) :
                        (i # j /\ ~x[i].err /\ ~x[j].err) => x[i].name # x[j].name}}

\* A directory of n audio files a.mp3, b.mp3, ...
TracksDir(n) ==
    [is_dir |-> TRUE, read_dir_ok |-> TRUE,
     entries |-> [i \in 1..n |->
                    [err |-> FALSE, name |-> <<Lowers[i]>> \o <<".", "m", "p", "3">>,
                     is_file |-> TRUE]]]

\* let mut player = MusicPlayer::new(music_dir).map_err(|e| e.to_string())?;
\* and let player_clone = player.clone(); an Err ends main.
New ==
    /\ Running
    /\ new_result.status = "none"
    /\ new_result' = MusicPlayerNew(dir)
    /\ IF new_result'.status = "Ok"
       THEN /\ nfiles' = Len(new_result'.files)
            /\ current_index' = [p \in {"main", "server"} |->
                                    new_result'.current_index]
            /\ proc' = proc
       ELSE /\ proc' = "failed"
            /\ UNCHANGED <<nfiles, current_index>>
    /\ UNCHANGED <<playlistVars, hotkeyVars, dir>>
    /\ UNCHANGED <<sink, lock, main_pc, srv_pc, srv_cmd, srv_paused, srv_vol,
                   config_volume, last_started, media_error, vol_log>>

\* ------------------------------------------------------------ specification

\* main() up to the spawn of the threads: MusicPlayer::new succeeded with n
\* files and cursor 0, the clone has the same cursor, the sink is empty with
\* the configured volume.
InitPlayer(n, v) ==
    /\ nfiles = n
    /\ current_index = [p \in {"main", "server"} |-> 0]
    /\ sink = [queued |-> <<>>, paused |-> FALSE, volume |-> v]
    /\ lock = "free"
    /\ main_pc = "start"
    /\ srv_pc = "accept"
    /\ srv_cmd = ""
    /\ srv_paused = FALSE
    /\ srv_vol = 0
    /\ proc = "running"
    /\ config_volume = v
    /\ last_started = <<>>
    /\ media_error = FALSE
    /\ vol_log = <<>>
    /\ dir = TracksDir(n)
    /\ new_result = MusicPlayerNew(dir)

\* The sequential playlist model before its first call.
InitPlaylist(start) ==
    /\ pl_index = start
    /\ pl_start = start
    /\ pl_ops = <<>>

\* hotkey_listener before the first event: no key held, ModifierState::default().
InitHotkeys(config) ==
    /\ hotkeys = config
    /\ pressed_keys = {}
    /\ modifiers = [m \in ModifierNames |-> FALSE]
    /\ hk_event = [kind |-> "none", key |-> ""]
    /\ hk_sent = {}

vars == <<playerVars, playlistVars, hotkeyVars, scanVars>>

\* The daemon with the default configuration document.
Init ==
    /\ \E n \in 1..MaxFiles : InitPlayer(n, DefaultVolume)
    /\ InitPlaylist(0)
    /\ InitHotkeys(DefaultHotkeys)

Next ==
    \/ ServerAccept
    \/ ServerRead
    \/ ServerReadErr
    \/ ServerStop
    \/ ServerIgnore
    \/ ServerLock
    \/ ServerNext
    \/ ServerPrev
    \/ ServerPauseRead
    \/ ServerPauseWrite
    \/ ServerVolumeRead
    \/ ServerVolumeWrite
    \/ MainStartLock
    \/ MainStartPlay
    \/ MainPollLock
    \/ MainCheckEmpty
    \/ MainAdvance
    \/ MainWake
    \/ TrackEnd

Spec == Init /\ [][Next]_vars

\* The scheduling the liveness of the Supervisor rests on: a thread that can
\* take its next step inside main_loop or inside a critical section takes
\* it (weak fairness), and a thread that waits for the Mutex gets it if the
\* Mutex is free again and again (strong fairness). Clients need not send
\* anything, and a track need not end.
Fairness ==
    /\ WF_vars(MainStartPlay)
    /\ WF_vars(MainCheckEmpty)
    /\ WF_vars(MainAdvance)
    /\ WF_vars(MainWake)
    /\ SF_vars(MainStartLock)
    /\ SF_vars(MainPollLock)
    /\ WF_vars(ServerNext)
    /\ WF_vars(ServerPrev)
    /\ WF_vars(ServerPauseRead)
    /\ WF_vars(ServerPauseWrite)
    /\ WF_vars(ServerVolumeRead)
    /\ WF_vars(ServerVolumeWrite)

FairSpec == Init /\ [][Next]_vars /\ Fairness

\* The values config.volume takes in the volume model (serde accepts every
\* float, in or out of [0.0, 1.0]).
ConfigVolumes == {-20, 0, 5, 35, 70, 95, 100, 105, 115}

\* The daemon over a single file with any configured volume.
InitVolume ==
    /\ \E v \in ConfigVolumes : InitPlayer(1, v)
    /\ InitPlaylist(0)
    /\ InitHotkeys(DefaultHotkeys)

SpecVolume == InitVolume /\ [][Next]_vars

\* A MusicPlayer over n files with its cursor anywhere, driven by one thread.
InitSequential ==
    /\ \E n \in 1..MaxPlaylist : \E start \in 0..(n - 1) :
         /\ InitPlayer(n, DefaultVolume)
         /\ InitPlaylist(start)
    /\ InitHotkeys(DefaultHotkeys)

NextPlaylist ==
    \/ PlaylistNext
    \/ PlaylistPrev

SpecPlaylist == InitSequential /\ [][NextPlaylist]_vars

\* hotkey_listener with any of the configuration documents.
InitListener ==
    /\ InitPlayer(1, DefaultVolume)
    /\ InitPlaylist(0)
    /\ \E config \in HotkeyConfigs : InitHotkeys(config)

NextHotkey ==
    \/ \E key \in InputKeys : KeyPress(key)
    \/ \E key \in InputKeys : KeyRelease(key)
    \/ OtherEvent

SpecHotkey == InitListener /\ [][NextHotkey]_vars

\* main() before MusicPlayer::new(music_dir): the sink has the configured
\* volume, there is no player and no thread has been spawned.
InitScan ==
    /\ nfiles = 0
    /\ current_index = [p \in {"main", "server"} |-> 0]
    /\ sink = [queued |-> <<>>, paused |-> FALSE, volume |-> DefaultVolume]
    /\ lock = "free"
    /\ main_pc = "start"
    /\ srv_pc = "accept"
    /\ srv_cmd = ""
    /\ srv_paused = FALSE
    /\ srv_vol = 0
    /\ proc = "running"
    /\ config_volume = DefaultVolume
    /\ last_started = <<>>
    /\ media_error = FALSE
    /\ vol_log = <<>>
    /\ dir \in Dirs
    /\ new_result = NotConstructed
    /\ InitPlaylist(0)
    /\ InitHotkeys(DefaultHotkeys)

NextScan == New

SpecScan == InitScan /\ [][NextScan]_vars

\* ------------------------------------------------------------------ claims

MainInCS == main_pc \in {"start_locked", "poll_locked", "advance"}

ServerInCS == srv_pc \in {"locked", "write"}

Min(a, b) == IF a < b THEN a ELSE b

Max(a, b) == IF a > b THEN a ELSE b

\* C1: one playback cursor is shared by the Dispatcher and the Supervisor.
\* In a run without media errors, the track an auto-advance starts is the
\* successor of the track started last (by either thread), the track a Next
\* command starts is its successor and the track a Prev command starts is its
\* predecessor.
C1_SharedCursor ==
    [][(last_started # <<>> /\ ~media_error') =>
         /\ (main_pc = "advance" /\ main_pc' = "sleep") =>
               last_started' = <<(last_started[1] + 1) % nfiles>>
         /\ (srv_pc = "locked" /\ srv_cmd = "next" /\ srv_pc' = "accept") =>
               last_started' = <<(last_started[1] + 1) % nfiles>>
         /\ (srv_pc = "locked" /\ srv_cmd = "prev" /\ srv_pc' = "accept") =>
               last_started' = <<(last_started[1] + nfiles - 1) % nfiles>>
      ]_vars

\* C2: with N >= 1 files every cursor stays in 0..N-1, whatever next, prev
\* and auto-advance calls were made and whether or not their play() failed.
C2_CursorInBounds ==
    /\ nfiles >= 1
    /\ \A p \in DOMAIN current_index :
         current_index[p] >= 0 /\ current_index[p] < nfiles

\* C2 witness: a play() has failed in the command server (the process still
\* runs), and both cursors have moved to the last of three files.
C2_Witness ==
    /\ media_error
    /\ proc = "running"
    /\ nfiles = 3
    /\ current_index["server"] = 2
    /\ current_index["main"] = 2

AllCalls(op) == \A k \in 1..Len(pl_ops) : pl_ops[k].op = op

CursorBefore(k) == IF k = 1 THEN pl_start ELSE pl_ops[k - 1].index

\* C3: N calls of next in a row bring the cursor back to where it started,
\* having visited every index once, each step going up by one or wrapping
\* from N-1 to 0; N calls of prev in a row bring it back too.
C3_Cycle ==
    /\ AllCalls("next") =>
         \A k \in 1..Len(pl_ops) :
            \/ CursorBefore(k) < nfiles - 1 /\ pl_ops[k].index = CursorBefore(k) + 1
            \/ CursorBefore(k) = nfiles - 1 /\ pl_ops[k].index = 0
    /\ (AllCalls("next") /\ Len(pl_ops) = nfiles) =>
         /\ pl_index = pl_start
         /\ {pl_ops[k].index : k \in 1..nfiles} = 0..(nfiles - 1)
    /\ (AllCalls("prev") /\ Len(pl_ops) = nfiles) => pl_index = pl_start

\* C3 witness: three files, three calls of next from the middle one.
C3_Witness ==
    /\ nfiles = 3
    /\ pl_start = 1
    /\ Len(pl_ops) = 3
    /\ AllCalls("next")
    /\ pl_index = 1

\* C4: next followed at once by prev restores the cursor, from every
\* starting position.
C4_NextThenPrev ==
    (Len(pl_ops) >= 2 /\ pl_ops[1].op = "next" /\ pl_ops[2].op = "prev") =>
        /\ pl_ops[2].index = pl_start
        /\ Len(pl_ops) = 2 => pl_index = pl_start

\* C4 witness: next then prev from the last of several files (next wraps).
C4_Witness ==
    /\ nfiles >= 2
    /\ pl_start = nfiles - 1
    /\ Len(pl_ops) = 2
    /\ pl_ops[1].op = "next"
    /\ pl_ops[1].index = 0
    /\ pl_ops[2].op = "prev"
    /\ pl_index = pl_start

\* What the combination strings of the documents say, read by hand: the
\* modifiers named and the key named ("" when the key token names no key).
SaidMods(cmd) ==
    IF hotkeys = CustomHotkeys
    THEN CASE cmd = "next" -> {"ctrl"}
           [] cmd = "prev" -> {"ctrl", "shift"}
           [] cmd = "pause" -> {}
           [] cmd = "stop" -> {"shift", "alt"}
           [] cmd = "volume_up" -> {"meta"}
           [] cmd = "volume_down" -> {"meta", "alt"}
    ELSE {}

SaidKey(cmd) ==
    IF hotkeys = CustomHotkeys
    THEN CASE cmd = "next" -> "KeyX"
           [] cmd = "prev" -> "KeyX"
           [] cmd = "pause" -> "KeyX"
           [] cmd = "stop" -> "Delete"
           [] cmd = "volume_up" -> "Unknown(0x1008ff17)"
           [] cmd = "volume_down" -> "KeyX"
    ELSE ""

SaidToMatch(cmd) ==
    /\ \A m \in {"shift", "ctrl", "alt", "meta"} : modifiers[m] = (m \in SaidMods(cmd))
    /\ SaidKey(cmd) \in pressed_keys

\* C5: a binding matches exactly when each modifier flag equals the presence
\* of that modifier in the combination string and the key the string names
\* is held; the commands a key press sends are exactly those of the bindings
\* that match. With ctrl the only modifier and X held, "ctrl+x" matches and
\* "ctrl+shift+x" does not.
C5_ExactMatch ==
    hotkeys \in {CustomHotkeys, DefaultHotkeys} =>
        /\ \A cmd \in DOMAIN hotkeys :
             check_hotkey(pressed_keys, modifiers, hotkeys[cmd]) = SaidToMatch(cmd)
        /\ hk_event.kind = "press" =>
             hk_sent = {cmd \in DOMAIN hotkeys : SaidToMatch(cmd)}
        /\ (/\ hotkeys = CustomHotkeys
            /\ "KeyX" \in pressed_keys
            /\ modifiers = [m \in {"shift", "ctrl", "alt", "meta"} |-> m = "ctrl"])
           => /\ check_hotkey(pressed_keys, modifiers, <<"c", "t", "r", "l", "+", "x">>)
              /\ ~check_hotkey(pressed_keys, modifiers,
                     <<"c", "t", "r", "l", "+", "s", "h", "i", "f", "t", "+", "x">>)

\* C5 witness: X pressed while ctrl and shift are active and held: the
\* press sends prev ("ctrl+shift+x") and not next ("ctrl+x").
C5_Witness ==
    /\ hotkeys = CustomHotkeys
    /\ hk_event = [kind |-> "press", key |-> "KeyX"]
    /\ modifiers["ctrl"] /\ modifiers["shift"]
    /\ ~modifiers["alt"] /\ ~modifiers["meta"]
    /\ hk_sent = {"prev"}

\* C6: commands are sent only while a key press is handled. A release takes
\* the key out of the held keys, clears the flag of its modifier and sends
\* nothing, even if the state it leaves matches a binding.
C6_NothingOnRelease ==
    /\ hk_sent # {} => hk_event.kind = "press"
    /\ hk_event.kind = "release" =>
         /\ hk_sent = {}
         /\ hk_event.key \notin pressed_keys
         /\ hk_event.key \in {"ShiftLeft", "ShiftRight"} => ~modifiers["shift"]
         /\ hk_event.key = "ControlLeft" => ~modifiers["ctrl"]
         /\ hk_event.key = "Alt" => ~modifiers["alt"]
         /\ hk_event.key = "MetaLeft" => ~modifiers["meta"]

\* C6 witness: shift has just been released with X still held, which leaves
\* a state that matches "x"; nothing was sent.
C6_Witness ==
    /\ hotkeys = CustomHotkeys
    /\ hk_event = [kind |-> "release", key |-> "ShiftLeft"]
    /\ pressed_keys = {"KeyX"}
    /\ check_hotkey(pressed_keys, modifiers, hotkeys["pause"])
    /\ hk_sent = {}

\* C7: from a gain in [0.0, 1.0] volume_up and volume_down keep the gain in
\* [0.0, 1.0]; volume_up gives min(gain + 0.1, 1.0) and never lowers the
\* gain, volume_down gives max(gain - 0.1, 0.0) and never raises it; two
\* volume_up from 0.95 give 1.0 and two volume_down from 0.05 give 0.0.
C7_VolumeClamped ==
    (config_volume >= 0 /\ config_volume <= 100) =>
        /\ sink.volume >= 0 /\ sink.volume <= 100
        /\ vol_log = <<"volume_up">> =>
             /\ sink.volume = Min(config_volume + 10, 100)
             /\ sink.volume >= config_volume
        /\ vol_log = <<"volume_down">> =>
             /\ sink.volume = Max(config_volume - 10, 0)
             /\ sink.volume <= config_volume
        /\ (srv_pc = "write" /\ srv_cmd = "volume_up") =>
             /\ srv_vol = Min(sink.volume + 10, 100)
             /\ srv_vol >= sink.volume
        /\ (srv_pc = "write" /\ srv_cmd = "volume_down") =>
             /\ srv_vol = Max(sink.volume - 10, 0)
             /\ srv_vol <= sink.volume
        /\ (config_volume = 95 /\ vol_log = <<"volume_up", "volume_up">>) =>
             sink.volume = 100
        /\ (config_volume = 5 /\ vol_log = <<"volume_down", "volume_down">>) =>
             sink.volume = 0

\* C7 witness: two volume_up applied from 0.95.
C7_Witness ==
    /\ config_volume = 95
    /\ vol_log = <<"volume_up", "volume_up">>
    /\ sink.volume = 100

\* C8: the commands that touch the sink run under the one lock, from before
\* their first read to their last write: the two threads are never both in
\* their critical sections, the lock names the thread that is in one, what a
\* command has read is still what the sink holds when it writes, and the
\* cursors and the sink change only in steps of the thread holding the lock.
C8_Atomic ==
    /\ [](/\ ~(MainInCS /\ ServerInCS)
          /\ (lock = "main") = MainInCS
          /\ (lock = "server") = ServerInCS
          /\ (srv_pc = "write" /\ srv_cmd = "pause") => srv_paused = sink.paused
          /\ (srv_pc = "write" /\ srv_cmd = "volume_up") =>
                srv_vol = Min(sink.volume + 10, 100)
          /\ (srv_pc = "write" /\ srv_cmd = "volume_down") =>
                srv_vol = Max(sink.volume - 10, 0))
    /\ [][/\ (\/ current_index'["server"] # current_index["server"]
              \/ sink'.paused # sink.paused
              \/ sink'.volume # sink.volume) => lock = "server"
          /\ current_index'["main"] # current_index["main"] => lock = "main"
          /\ (sink'.queued # sink.queued /\ sink'.queued # <<>>) => lock # "free"
         ]_vars

\* C8 witness: the command server is between the read and the write of a
\* pause command while the main thread waits for the lock.
C8_Witness ==
    /\ srv_pc = "write"
    /\ srv_cmd = "pause"
    /\ lock = "server"
    /\ main_pc = "poll"
    /\ sink.queued = <<>>

\* C9: a play() that fails never crashes the process, whichever thread
\* called it.
C9_MediaErrorSurvived == media_error => proc # "panicked"

\* C10: a request that is not one of the six tokens changes neither a cursor
\* nor the sink, does not end the process, and the server goes back to
\* accepting connections.
C10_UnknownIgnored ==
    [][(/\ srv_pc = "dispatch"
        /\ srv_cmd \notin {"next", "prev", "pause", "stop", "volume_up", "volume_down"}
        /\ srv_pc' # srv_pc)
       => /\ srv_pc' = "accept"
          /\ current_index' = current_index
          /\ sink' = sink
          /\ lock' = lock
          /\ proc' = "running"
      ]_vars

\* C10 witness: the server is accepting again after a request "next" with a
\* trailing newline, with a paused track in the sink and both cursors still
\* at 0.
C10_Witness ==
    /\ srv_pc = "accept"
    /\ srv_cmd = "next\n"
    /\ sink.queued = <<0>>
    /\ sink.paused
    /\ current_index["server"] = 0
    /\ current_index["main"] = 0
    /\ proc = "running"

\* C11: the Supervisor advances only in a poll in which it saw the sink
\* empty while holding the lock, and check and advance are one critical
\* section: when it is about to advance it holds the lock and the sink is
\* still empty, its cursor moves only from such a state, and no step of the
\* command server changes anything between the check and the advance.
C11_AdvanceOnlyWhenEmpty ==
    /\ [](main_pc = "advance" => (lock = "main" /\ sink.queued = <<>>))
    /\ [][/\ current_index'["main"] # current_index["main"] =>
               /\ main_pc = "advance"
               /\ lock = "main"
               /\ sink.queued = <<>>
          /\ (main_pc = "advance" /\ main_pc' = "advance") =>
               /\ current_index' = current_index
               /\ sink' = sink
               /\ srv_pc' \notin {"locked", "write"}
         ]_vars

\* C11 witness: the Supervisor has seen the sink empty and is about to
\* advance while a next command waits for the lock.
C11_Witness ==
    /\ main_pc = "advance"
    /\ lock = "main"
    /\ srv_pc = "dispatch"
    /\ srv_cmd = "next"
    /\ last_started # <<>>
    /\ sink.queued = <<>>

\* C12: as long as stop has not been applied, whenever a track has been
\* started and the sink is empty, a track is eventually in the sink again
\* (or stop ends the process), without any command being needed.
C12_AutoAdvance ==
    [](((last_started # <<>> /\ sink.queued = <<>> /\ proc # "exited"))
         => <>(sink.queued # <<>> \/ proc = "exited"))

\* The same, for the runs in which no play() fails.
C12_AutoAdvanceUnlessMediaError ==
    [](((last_started # <<>> /\ sink.queued = <<>> /\ proc # "exited"))
         => <>(sink.queued # <<>> \/ proc = "exited" \/ media_error))

\* Stop ends the process: from a state in which process::exit has run no
\* step is taken, and process::exit runs only in the "stop" arm.
StopIsTerminal ==
    /\ [][proc # "exited"]_vars
    /\ [](proc = "exited" => (srv_pc = "dispatch" /\ srv_cmd = "stop"))

\* C13: once stop has been applied nothing changes any more, and the process
\* is terminated by nothing but stop: no other command and no error ends it.
C13_OnlyStopTerminates ==
    /\ [][proc = "running"]_vars
    /\ [](proc # "running" =>
            (proc = "exited" /\ srv_pc = "dispatch" /\ srv_cmd = "stop"))

\* The physical keys of each modifier.
KeysOf(m) ==
    CASE m = "shift" -> {"ShiftLeft", "ShiftRight"}
      [] m = "ctrl" -> {"ControlLeft", "ControlRight"}
      [] m = "alt" -> {"Alt", "AltGr"}
      [] m = "meta" -> {"MetaLeft", "MetaRight"}

\* C14: each modifier flag is the kind (press true, release false) of the
\* latest event of one of that modifier's keys and false before any; events
\* of other keys leave the flags alone. So a flag is false after the release
\* of one of its keys even if the other one is still held.
C14_FlagIsLatestEvent ==
    /\ [](hk_event.kind = "none" =>
            \A m \in {"shift", "ctrl", "alt", "meta"} : ~modifiers[m])
    /\ [][\A m \in {"shift", "ctrl", "alt", "meta"} :
            IF hk_event'.kind \in {"press", "release"} /\ hk_event'.key \in KeysOf(m)
            THEN modifiers'[m] = (hk_event'.kind = "press")
            ELSE modifiers'[m] = modifiers[m]
         ]_vars

\* C14 witness: the left shift key has been released while the right one is
\* still held, and the shift flag is false.
C14_Witness ==
    /\ hk_event = [kind |-> "release", key |-> "ShiftLeft"]
    /\ "ShiftRight" \in pressed_keys
    /\ ~modifiers["shift"]

\* C15: a binding whose key token names no key, or that has no key token,
\* never matches and its command is never sent. This is so for the four
\* bindings of the broken document ("ctrl+nosuchkey", "shift", "ctrl+x+",
\* "") and for the four default bindings ("XF86Audio...").
C15_UnresolvedNeverMatches ==
    hotkeys \in {BrokenHotkeys, DefaultHotkeys} =>
        /\ hk_sent = {}
        /\ \A cmd \in DOMAIN hotkeys :
             ~check_hotkey(pressed_keys, modifiers, hotkeys[cmd])

\* C15 witness: with the broken document, X has been pressed with only
\* shift active (the modifiers of "shift" are satisfied) and nothing was
\* sent.
C15_Witness ==
    /\ hotkeys = BrokenHotkeys
    /\ hk_event = [kind |-> "press", key |-> "KeyX"]
    /\ modifiers = [m \in {"shift", "ctrl", "alt", "meta"} |-> m = "shift"]
    /\ hk_sent = {}

\* C18: the key token of each of the four default bindings resolves in the
\* key table (without which no sequence of events makes it match).
C18_DefaultsResolve ==
    hotkeys = DefaultHotkeys =>
        \A cmd \in DOMAIN hotkeys :
            LET parts == Split(hotkeys[cmd]) IN
              /\ Len(parts) = 1
              /\ str_to_key(parts[1]) # <<>>

\* C19 as claimed: a key press sends a binding's command only if the key
\* pressed is the binding's key or a key of one of its modifiers.
C19_OnlyOwnKeys ==
    (hotkeys = CustomHotkeys /\ hk_event.kind = "press") =>
        \A cmd \in hk_sent :
            \/ hk_event.key = SaidKey(cmd)
            \/ \E m \in SaidMods(cmd) : hk_event.key \in KeysOf(m)

\* C19 as amended: a key press sends the command of every binding that
\* matches the state the press leaves, whichever key was pressed; pressing
\* Delete while ctrl and X are held sends next ("ctrl+x") again.
C19_EveryPressSends ==
    (hotkeys = CustomHotkeys /\ hk_event.kind = "press") =>
        /\ \A cmd \in DOMAIN hotkeys : SaidToMatch(cmd) => cmd \in hk_sent
        /\ (/\ hk_event.key = "Delete"
            /\ "KeyX" \in pressed_keys
            /\ modifiers = [m \in {"shift", "ctrl", "alt", "meta"} |-> m = "ctrl"])
           => "next" \in hk_sent

\* C19 witness: Delete pressed while ctrl and X are held; next is sent.
C19_Witness ==
    /\ hotkeys = CustomHotkeys
    /\ hk_event = [kind |-> "press", key |-> "Delete"]
    /\ {"ControlLeft", "KeyX", "Delete"} \subseteq pressed_keys
    /\ modifiers = [m \in {"shift", "ctrl", "alt", "meta"} |-> m = "ctrl"]
    /\ hk_sent = {"next"}

\* C16: no thread holds the lock across a blocking wait: the main thread
\* does not hold it while it sleeps, the server does not hold it while it
\* waits for a connection or for the end of a client's message, and the
\* hotkey thread never holds it. So while a client is connected and silent,
\* the main thread, when it wants the lock, can take it.
C16_NoLockAcrossWait ==
    /\ lock \in {"free", "main", "server"}
    /\ main_pc = "sleep" => lock # "main"
    /\ srv_pc \in {"accept", "read"} => lock # "server"
    /\ (Running /\ srv_pc = "read" /\ main_pc \in {"start", "poll"}) =>
         ENABLED (MainStartLock \/ MainPollLock)

\* C16 witness: a client is connected and has sent nothing, and the main
\* thread has taken the lock for a poll after a sleep.
C16_Witness ==
    /\ srv_pc = "read"
    /\ main_pc = "poll_locked"
    /\ lock = "main"
    /\ last_started # <<>>

\* C20: whatever gain the configuration sets, once a volume_up or a
\* volume_down has been applied the gain lies in [0.0, 1.0]; applying
\* volume_up never lowers the gain and applying volume_down never raises it.
C20_AnyStartClamped ==
    /\ [](vol_log # <<>> => (sink.volume >= MinVolume /\ sink.volume <= MaxVolume))
    /\ [][/\ (srv_pc = "write" /\ srv_cmd = "volume_up") =>
               sink'.volume >= sink.volume
          /\ (srv_pc = "write" /\ srv_cmd = "volume_down") =>
               sink'.volume <= sink.volume
         ]_vars

\* The part of C20 about the range alone.
VolumeInRangeAfterCommand ==
    vol_log # <<>> => (sink.volume >= MinVolume /\ sink.volume <= MaxVolume)

\* The part of C20 about the direction alone.
VolumeDirection ==
    [][/\ (srv_pc = "write" /\ srv_cmd = "volume_up") =>
            sink'.volume >= sink.volume
       /\ (srv_pc = "write" /\ srv_cmd = "volume_down") =>
            sink'.volume <= sink.volume
      ]_vars

\* The file names of the scan model whose extension is, whatever its case,
\* one of mp3, wav, flac, ogg, aac, m4a.
SupportedNames ==
    {<<"a", ".", "m", "p", "3">>,
     <<"b", ".", "M", "P", "3">>,
     <<"c", ".", "F", "l", "a", "c">>,
     <<"d", ".", "w", "a", "v">>,
     <<"e", ".", "o", "g", "g">>,
     <<"f", ".", "a", "a", "c">>,
     <<"g", ".", "M", "4", "A">>,
     <<"k", ".", "t", "a", "r", ".", "o", "g", "g">>}

\* The entries of the directory that are regular files with a supported
\* extension.
SupportedEntries ==
    {i \in 1..Len(dir.entries) :
        /\ ~dir.entries[i].err
        /\ dir.entries[i].is_file
        /\ dir.entries[i].name \in SupportedNames}

\* What a successful construction holds: exactly the supported regular
\* files, at least one, and the cursor at 0.
ConstructedOverSupported ==
    /\ new_result.status = "Ok"
    /\ new_result.files # <<>>
    /\ {new_result.files[i] : i \in 1..Len(new_result.files)} =
         {dir.entries[i].name : i \in SupportedEntries}
    /\ Len(new_result.files) = Cardinality(SupportedEntries)
    /\ new_result.current_index = 0
    /\ nfiles = Len(new_result.files)
    /\ current_index = [p \in {"main", "server"} |-> 0]

\* C17 as claimed: construction fails when the path is not a directory or
\* the directory has no regular file with a supported extension, and
\* otherwise succeeds with exactly the supported files and cursor 0.
C17_FailsOnlyWithoutTracks ==
    new_result.status # "none" =>
        IF ~dir.is_dir \/ SupportedEntries = {}
        THEN new_result.status = "Err"
        ELSE ConstructedOverSupported

\* C17 as amended: construction fails also when reading the directory or one
\* of its entries fails.
C17_ConstructionResult ==
    new_result.status # "none" =>
        IF \/ ~dir.is_dir
           \/ ~dir.read_dir_ok
           \/ \E i \in 1..Len(dir.entries) : dir.entries[i].err
           \/ SupportedEntries = {}
        THEN new_result.status = "Err" /\ proc = "failed"
        ELSE ConstructedOverSupported

\* C17 witness: a directory with h.txt and b.MP3; construction succeeded
\* with b.MP3 alone.
C17_Witness ==
    /\ dir.is_dir
    /\ Len(dir.entries) = 2
    /\ dir.entries[1].name = <<"h", ".", "t", "x", "t">>
    /\ dir.entries[2].name = <<"b", ".", "M", "P", "3">>
    /\ new_result.status = "Ok"
    /\ new_result.files = << <<"b", ".", "M", "P", "3">> >>

====
